---- MODULE Spec2Model ----
(***************************************************************************)
(* Editor lifecycle and message bridge of nih-plug-webview (src/src/lib.rs) *)
(* as a state machine: the persisted EditorSize, the shared webview cell    *)
(* with its reference counts, the IPC handler registered in spawn, the      *)
(* user-logic callbacks it dispatches to, and the resize negotiation.       *)
(* Beside it: the outbound scripts of send_message, read the way the       *)
(* panel's script engine reads them, and SendCell (src/src/safe_cell.rs).  *)
(*                                                                         *)
(* Strings are sequences of one-character strings, so that starts_with,    *)
(* trim_start_matches and base64 decoding are computed, not assumed.        *)
(* Sizes are f64 logical pixels, held here in half pixels (700 = 350.0).    *)
(***************************************************************************)
EXTENDS Integers, Sequences, FiniteSets, TLC

\* ---------------------------------------------------------------- bounds

\* Payload strings the panel emits in one run of the codec specification.
MaxPayloadIpc == 1

\* Length of the longest Text payload given to send_message.
MaxText == 2

\* Length of the byte runs carried in Binary payloads.
MaxRun == 16

\* Threads that handle a SendCell.
MaxThreads == 2

\* Inbound wire strings delivered to the IPC handler in one run.
MaxIpc == 2

\* EditorHandles alive at the same time.
MaxHandles == 2

\* PanelInstances the model can tell apart (the identity counter's range).
MaxInst == 2

\* GuiContexts the host hands out
MaxContexts == 2

\* ---------------------------------------------------------------- strings

FRAME == <<"f", "r", "a", "m", "e">>

TEXT_PREFIX == <<"t", "e", "x", "t", ",">>

BINARY_PREFIX == <<"b", "i", "n", "a", "r", "y", ",">>

\* str::starts_with
StartsWith(s, p) == Len(s) >= Len(p) /\ SubSeq(s, 1, Len(p)) = p

\* str::trim_start_matches: strips the prefix repeatedly
RECURSIVE TrimStartMatches(_, _)
TrimStartMatches(s, p) ==
    IF Len(p) > 0 /\ StartsWith(s, p)
    THEN TrimStartMatches(SubSeq(s, Len(p) + 1, Len(s)), p)
    ELSE s

\* The standard base64 alphabet, value v at position v + 1.
B64Alphabet ==
    << "A", "B", "C", "D", "E", "F", "G", "H", "I", "J", "K", "L", "M",
       "N", "O", "P", "Q", "R", "S", "T", "U", "V", "W", "X", "Y", "Z",
       "a", "b", "c", "d", "e", "f", "g", "h", "i", "j", "k", "l", "m",
       "n", "o", "p", "q", "r", "s", "t", "u", "v", "w", "x", "y", "z",
       "0", "1", "2", "3", "4", "5", "6", "7", "8", "9", "+", "/" >>

IsB64Char(c) == \E v \in 1..64 : B64Alphabet[v] = c

\* Mutant: the symbol values are counted from one.
B64ValFromOne(c) == CHOOSE v \in 1..64 : B64Alphabet[v] = c

B64Val(c) == (CHOOSE v \in 1..64 : B64Alphabet[v] = c) - 1

\* One group of four symbols: <<ok, bytes>>.  Padding is only legal in the
\* last group, and the bits a padded group leaves unused must be zero.
B64Quad(q, isLast) ==
    LET a == q[1]
        b == q[2]
        c == q[3]
        d == q[4]
    IN  IF ~(IsB64Char(a) /\ IsB64Char(b)) THEN <<FALSE, <<>>>>
        ELSE IF c = "=" THEN
            IF isLast /\ d = "=" /\ B64Val(b) % 16 = 0
            THEN <<TRUE, <<B64Val(a) * 4 + B64Val(b) \div 16>>>>
            ELSE <<FALSE, <<>>>>
        ELSE IF ~IsB64Char(c) THEN <<FALSE, <<>>>>
        ELSE IF d = "=" THEN
            IF isLast /\ B64Val(c) % 4 = 0
            THEN <<TRUE, << B64Val(a) * 4 + B64Val(b) \div 16,
                            (B64Val(b) % 16) * 16 + B64Val(c) \div 4 >>>>
            ELSE <<FALSE, <<>>>>
        ELSE IF ~IsB64Char(d) THEN <<FALSE, <<>>>>
        ELSE <<TRUE, << B64Val(a) * 4 + B64Val(b) \div 16,
                        (B64Val(b) % 16) * 16 + B64Val(c) \div 4,
                        (B64Val(c) % 4) * 64 + B64Val(d) >>>>

\* BASE64_STANDARD.decode: canonical padding is required, so the length is
\* a multiple of four.  <<TRUE, bytes>> or <<FALSE, <<>>>>.
RECURSIVE Base64Decode(_)
Base64Decode(s) ==
    IF Len(s) = 0 THEN <<TRUE, <<>>>>
    ELSE IF Len(s) < 4 THEN <<FALSE, <<>>>>
    ELSE LET head == B64Quad(SubSeq(s, 1, 4), Len(s) = 4)
             rest == Base64Decode(SubSeq(s, 5, Len(s)))
         IN  IF head[1] /\ rest[1]
             THEN <<TRUE, head[2] \o rest[2]>>
             ELSE <<FALSE, <<>>>>

B64Char(v) == B64Alphabet[v + 1]

\* BASE64_STANDARD.encode: three bytes to four symbols, the last group
\* padded with "=".
RECURSIVE Base64Encode(_)
Base64Encode(b) ==
    IF Len(b) = 0 THEN <<>>
    ELSE IF Len(b) = 1
    THEN << B64Char(b[1] \div 4), B64Char((b[1] % 4) * 16), "=", "=" >>
    ELSE IF Len(b) = 2
    THEN << B64Char(b[1] \div 4),
            B64Char((b[1] % 4) * 16 + b[2] \div 16),
            B64Char((b[2] % 16) * 4), "=" >>
    ELSE << B64Char(b[1] \div 4),
            B64Char((b[1] % 4) * 16 + b[2] \div 16),
            B64Char((b[2] % 16) * 4 + b[3] \div 64),
            B64Char(b[3] % 64) >> \o Base64Encode(SubSeq(b, 4, Len(b)))

\* A run of MaxRun consecutive byte values; the runs together hold every
\* value of a u8.
ByteRun(k) == [i \in 1..MaxRun |-> (MaxRun * k + i - 1) % 256]

\* The byte sequences carried in Binary messages: the empty one, the two
\* padded group sizes, one whole group, and the runs.
ByteSeqs ==
    { <<>>, <<0>>, <<255>>, <<104, 105>>, <<255, 0>>, <<0, 16, 131>> }
        \cup { ByteRun(k) : k \in 0..(255 \div MaxRun) }

\* The base64 text of each of them.
EncodedBytes == [b \in ByteSeqs |-> Base64Encode(b)]

\* The backtick character (a string of this notation cannot hold one).
BT == "BACKTICK"

\* Text payloads the panel puts after "text,".
InTexts ==
    { <<>>,
      <<"h", "i">>,
      <<"t", "e", "x", "t", ",">>,
      <<"t", "e", "x", "t", ",", "h", "i">>,
      <<"b", "i", "n", "a", "r", "y", ",">>,
      <<"a", ",", BT>> }

\* The payload strings the panel emits in the codec specification.
InPayloads ==
    { TEXT_PREFIX \o t : t \in InTexts }
        \cup { BINARY_PREFIX \o EncodedBytes[b] : b \in ByteSeqs }

\* Characters of the Text payloads given to send_message.
TextAlphabet == { "a", "n", BT, "\\", "$", "{" }

RECURSIVE StringsUpTo(_)
StringsUpTo(n) ==
    IF n = 0 THEN { <<>> }
    ELSE LET S == StringsUpTo(n - 1)
         IN  S \cup { Append(t, c) : t \in S, c \in TextAlphabet }

OutTexts == StringsUpTo(MaxText)

\* The messages user logic gives to send_message.
OutBinary == { [kind |-> "Binary", text |-> <<>>, bytes |-> b] : b \in ByteSeqs }

OutMessages ==
    { [kind |-> "Text", text |-> t, bytes |-> <<>>] : t \in OutTexts }
        \cup OutBinary

PLUGIN_OBJ == "window.__NIH_PLUG_WEBVIEW__"

\* text.replace("`", r#"\`"#)
RECURSIVE ReplaceBacktick(_)
ReplaceBacktick(t) ==
    IF t = <<>> THEN <<>>
    ELSE (IF Head(t) = BT THEN <<"\\", BT>> ELSE <<Head(t)>>)
             \o ReplaceBacktick(Tail(t))

\* format!("{PLUGIN_OBJ}.onmessage(`text`,`{}`);", text): the fixed pieces
\* are single elements, each backtick stands alone, the payload is spelled
\* out.
TextScript(text) ==
    << PLUGIN_OBJ, ".onmessage(", BT, "text", BT, ",", BT >>
        \o text \o << BT, ");" >>

\* format!("{PLUGIN_OBJ}.onmessage(`binary`, {PLUGIN_OBJ}.decodeBase64(`{bytes}`));")
BinaryScript(bytes) ==
    << PLUGIN_OBJ, ".onmessage(", BT, "binary", BT, ", ", PLUGIN_OBJ,
       ".decodeBase64(", BT >> \o bytes \o << BT, "));" >>

\* send_message: the script handed to evaluate_script.
Script(m) ==
    IF m.kind = "Text" THEN TextScript(ReplaceBacktick(m.text))
    ELSE BinaryScript(Base64Encode(m.bytes))

\* What follows the opening backtick of the payload literal in a script.
AfterOpening(script) ==
    IF script[4] = "text"
    THEN SubSeq(script, 8, Len(script))
    ELSE SubSeq(script, 10, Len(script))

\* The character a backslash escape stands for in a template literal.
JsEscape(c) == IF c = "n" THEN "\n" ELSE c

\* How the panel's script engine reads the characters after an opening
\* backtick: <<status, value, rest>>.  A backslash takes the next character
\* with it, a bare backtick closes the literal, "${" opens a substitution.
RECURSIVE JsTemplate(_)
JsTemplate(s) ==
    IF s = <<>> THEN <<"unterminated", <<>>, <<>>>>
    ELSE IF Head(s) = BT THEN <<"closed", <<>>, Tail(s)>>
    ELSE IF Head(s) = "\\"
    THEN IF Len(s) = 1 THEN <<"unterminated", <<>>, <<>>>>
         ELSE LET r == JsTemplate(SubSeq(s, 3, Len(s)))
              IN  <<r[1], <<JsEscape(s[2])>> \o r[2], r[3]>>
    ELSE IF Head(s) = "$" /\ Len(s) > 1 /\ s[2] = "{"
    THEN <<"substitution", <<>>, Tail(s)>>
    ELSE LET r == JsTemplate(Tail(s))
         IN  <<r[1], <<Head(s)>> \o r[2], r[3]>>

\* The wire strings the panel emits in the model.
WireStrings ==
    { FRAME,
      <<"f", "r", "a", "m", "e", "s">>,
      <<"t", "e", "x", "t", ",", "h", "i">>,
      <<"b", "i", "n", "a", "r", "y", ",", "a", "G", "k", "=">>,
      <<"b", "i", "n", "a", "r", "y", ",", "a", "G", "k">>,
      <<"h", "i">> }

\* ------------------------------------------------------------------ sizes

\* (width, height) pairs in half pixels: 350x250, 500x400 and -1x600.5
\* (a negative width, a fractional height).
SizePairs == { <<700, 500>>, <<1000, 800>>, <<-2, 1201>> }

\* Sizes the plugin constructs WebviewState with.
InitSizes == { <<700, 500>>, <<-2, 1201>> }

\* Sizes a saved state holds when the host restores it.
RestoreSizes == { <<700, 500>>, <<-2, 1201>> }

\* `x as u32` for an f64 held in half pixels: truncates toward zero and
\* saturates at 0.  (It also saturates at u32::MAX, which no size of the
\* model comes near.)
AsU32(x) == IF x <= 0 THEN 0 ELSE x \div 2

\* ------------------------------------------------------------------ state

Insts == 1..MaxInst

ParentKinds == { "AppKitNsView", "Win32Hwnd", "X11Window" }

\* No send_message call yet.
NoSent == [kind |-> "none", text |-> <<>>, bytes |-> <<>>, script |-> <<>>]

\* No request to the directory source yet.
NoRequest ==
    [ disk |-> <<>>, path |-> <<>>, status |-> 0, ctype |-> "", body |-> <<>> ]

\* No notification since construction, no params_changed() in this frame.
NoParamsCall == [ notified |-> FALSE, returned |-> "none", expected |-> FALSE ]

\* The thread of the host's GUI calls.
MainThread == 1

\* The GuiContexts the host may hand to spawn.
Contexts == 1..MaxContexts

\* No WebView built, no spawn yet, no WebView touched.
NoHost ==
    [ creator  |-> [i \in Insts |-> 0],
      captured |-> [i \in Insts |-> 0],
      latest   |-> 0,
      touch    |-> [thread |-> 0, creator |-> 0] ]

\* One WebView, built by the GUI thread's first spawn.
HostAttached ==
    [ creator  |-> [i \in Insts |-> IF i = 1 THEN MainThread ELSE 0],
      captured |-> [i \in Insts |-> IF i = 1 THEN 1 ELSE 0],
      latest   |-> 1,
      touch    |-> [thread |-> MainThread, creator |-> MainThread] ]

\* No SendCell yet.
NoCell ==
    [ state |-> "none", tid |-> 0, creator |-> 0, at |-> 0, data |-> "none",
      op |-> "none", by |-> 0, outcome |-> "none", value |-> "none" ]

VARIABLES
    size,            \* Init.state.size, the persisted EditorSize
    params_changed,  \* WebviewEditor.params_changed
    paramsCall,      \* notifications not yet reported, and what the last
                     \* params_changed() of this frame returned
    editorAlive,     \* the WebviewEditor has not been dropped
    parentKind,      \* the ParentWindowHandle variant this host passes
    webview,         \* content of WebviewEditor.webview: 0 is None, else an instance
    cellStrong,      \* strong count of the Rc around that RefCell
    wvState,         \* per instance: "unbuilt", "live" or "dropped"
    wvStrong,        \* per instance: strong count of its Rc<WebView>
    wvBounds,        \* per instance: the bounds last set on the WebView
    handles,         \* per instance: live EditorHandles holding it
    constructions,   \* WebViews built so far (the instance-identity counter)
    initCalls,       \* EditorHandler::init invocations so far
    reparent,        \* result of the last WebView::reparent: none, ok, failed, unsupported
    session,         \* none, attached, detached, reattached
    pc,              \* idle, on_frame, request_resize, on_message
    editorLock,      \* Init.editor mutex: free or held
    msg,             \* the IPC handler's `message`
    req,             \* resize: the requested (width, height)
    old,             \* resize: the value the swap returned
    sizeAtCall,      \* EditorSize when resize_window was called
    hostOk,          \* resize: what request_resize() returned
    ret,             \* resize: none, true or false
    proc,            \* running, exited (process::exit), unwound (a panic left the callee)
    panic,           \* where the panic started, or none
    delivered,       \* wire strings handed to the IPC handler, in order
    calls,           \* user-logic callbacks invoked, in order
    lastGranted,     \* the size last approved by the host or restored, else the initial one
    active,          \* user-logic callbacks now executing on the editor, innermost last
    sent,            \* the last message given to send_message and the script evaluated for it
    sendCell,        \* a SendCell: its fields, where it is now and the last operation on it
    served,          \* the last request to the directory source, the disk it met, the answer
    host             \* threads and GuiContexts: who built each WebView, which
                     \* context its closures captured, the last spawn's context,
                     \* the last thread to touch a WebView

vars ==
    << size, params_changed, paramsCall, editorAlive, parentKind, webview,
       cellStrong,
       wvState, wvStrong, wvBounds, handles, constructions, initCalls,
       reparent, session, pc, editorLock, msg, req, old, sizeAtCall, hostOk,
       ret, proc, panic, delivered, calls, lastGranted, active, sent,
       sendCell, served, host >>

NoSize == <<0, 0>>

RECURSIVE SumTo(_, _)
SumTo(f, n) == IF n = 0 THEN 0 ELSE f[n] + SumTo(f, n - 1)

\* Live EditorHandles, over all instances.
HandleTotal == SumTo(handles, MaxInst)

LiveInsts == { i \in Insts : wvState[i] = "live" }

\* -------------------------------------------------------------- ownership

\* The reference-counted objects: the Rc<RefCell<Option<Rc<WebView>>>> and
\* each Rc<WebView>.
Heap ==
    [ cellStrong |-> cellStrong, webview |-> webview,
      wvState |-> wvState, wvStrong |-> wvStrong ]

\* The IPC handler closure owns a clone of the cell's Rc (a strong one).
ClosureCellRefs == 1

\* Dropping one Rc<WebView> of instance i.  At zero the WebView is dropped,
\* and with it its IPC handler closure and what the closure captured.
\* Dropping one Rc of the cell: at zero the RefCell's content is dropped.
RECURSIVE ReleaseWv(_, _), ReleaseCell(_, _)
ReleaseWv(h, i) ==
    LET n  == h.wvStrong[i] - 1
        h1 == [h EXCEPT !.wvStrong[i] = n]
    IN  IF n > 0 THEN h1
        ELSE ReleaseCell([h1 EXCEPT !.wvState[i] = "dropped"], ClosureCellRefs)

ReleaseCell(h, k) ==
    IF k = 0 THEN h
    ELSE LET n  == h.cellStrong - k
             h1 == [h EXCEPT !.cellStrong = n]
         IN  IF n > 0 \/ h.webview = 0 THEN h1
             ELSE ReleaseWv([h1 EXCEPT !.webview = 0], h.webview)

SetHeap(h) ==
    /\ cellStrong' = h.cellStrong
    /\ webview' = h.webview
    /\ wvState' = h.wvState
    /\ wvStrong' = h.wvStrong

resizeVars == << req, old, sizeAtCall, hostOk, ret >>

ipcVars == << pc, editorLock, msg, delivered, calls, active >>

\* What no handler of the editor writes: the host's parent-handle variant,
\* the outbound script, the SendCell and the directory source's answers.
otherVars == << parentKind, sent, sendCell, served >>

heapVars == << webview, cellStrong, wvState, wvStrong >>

\* A panic that leaves the callee: nothing below it runs again.
Unwind(origin) ==
    /\ proc' = "unwound"
    /\ panic' = origin

\* ------------------------------------------------------------------- Init

Init ==
    /\ size \in InitSizes
    /\ lastGranted = size
    /\ params_changed = FALSE
    /\ paramsCall = NoParamsCall
    /\ editorAlive = TRUE
    /\ parentKind \in ParentKinds
    /\ webview = 0
    /\ cellStrong = 1
    /\ wvState = [i \in Insts |-> "unbuilt"]
    /\ wvStrong = [i \in Insts |-> 0]
    /\ wvBounds = [i \in Insts |-> NoSize]
    /\ handles = [i \in Insts |-> 0]
    /\ constructions = 0
    /\ initCalls = 0
    /\ reparent = "none"
    /\ session = "none"
    /\ pc = "idle"
    /\ editorLock = "free"
    /\ msg = <<>>
    /\ req = NoSize
    /\ old = NoSize
    /\ sizeAtCall = NoSize
    /\ hostOk = FALSE
    /\ ret = "none"
    /\ proc = "running"
    /\ panic = "none"
    /\ delivered = <<>>
    /\ calls = <<>>
    /\ active = <<>>
    /\ sent = NoSent
    /\ sendCell = NoCell
    /\ served = NoRequest
    /\ host = NoHost

\* ------------------------------------------------------------------ spawn

\* Mutant: every attach builds a new WebView.
NeverReuse(cell) == FALSE

\* Mutant: the WebView is reused only once every EditorHandle is gone.
ReuseOnlyWhenDetached(cell) == cell # 0 /\ HandleTotal = 0

\* `if let Some(webview) = webview_rc.borrow().clone()`
ReuseExisting(cell) == cell # 0

\* What the reuse branch does with the parent handle: reparenting exists
\* for the AppKit variant only, every other variant reaches todo!().
ReparentSupported(kind) == kind = "AppKitNsView"

\* init invocations made by one construction (the call is commented out).
InitPerConstruction == 0

\* UnsafeSend and `unsafe impl Send for EditorHandle` hand the Rc over
\* unchecked: thread t reaches WebView i whoever built it.
Touched(i, t) ==
    [host EXCEPT !.touch = [thread |-> t, creator |-> host.creator[i]]]

\* The session after an attach that returned an EditorHandle.
AfterAttach == IF session = "detached" THEN "reattached" ELSE
               IF session = "none" THEN "attached" ELSE session

\* Editor::spawn on the reuse path: the webview exists.
SpawnReuse(outcome, t, c) ==
    /\ UNCHANGED << size, params_changed, paramsCall, editorAlive, otherVars, wvBounds,
                    constructions, initCalls, resizeVars, ipcVars,
                    lastGranted >>
    /\ IF ~ReparentSupported(parentKind)
       THEN /\ reparent' = "unsupported"
            /\ Unwind("spawn_todo")
            /\ host' = Touched(webview, t)
            /\ UNCHANGED << heapVars, handles, session >>
       ELSE IF outcome = "failed"
       THEN /\ reparent' = "failed"
            /\ Unwind("spawn_reparent_unwrap")
            /\ host' = Touched(webview, t)
            /\ UNCHANGED << heapVars, handles, session >>
       ELSE /\ reparent' = "ok"
            /\ host' = [Touched(webview, t) EXCEPT !.latest = c]
            /\ wvStrong' = [wvStrong EXCEPT ![webview] = @ + 1]
            /\ handles' = [handles EXCEPT ![webview] = @ + 1]
            /\ session' = AfterAttach
            /\ UNCHANGED << webview, cellStrong, wvState, proc, panic >>

\* Editor::spawn on the construction path.
SpawnConstruct(built, t, c) ==
    /\ UNCHANGED << size, params_changed, paramsCall, editorAlive, otherVars, reparent,
                    resizeVars, ipcVars, lastGranted >>
    /\ IF ~built
       THEN /\ Unwind("spawn_build_expect")
            /\ UNCHANGED << heapVars, wvBounds, handles, constructions,
                            initCalls, session, host >>
       ELSE LET id == constructions + 1
                \* the new Rc<WebView>: the local and the clone put in the cell;
                \* its closure holds the cell
                h1 == [Heap EXCEPT !.wvState[id] = "live",
                                   !.wvStrong[id] = 2,
                                   !.cellStrong = @ + ClosureCellRefs,
                                   !.webview = id]
                \* RefCell::replace drops the previous content
                h2 == IF webview = 0 THEN h1 ELSE ReleaseWv(h1, webview)
            IN  /\ SetHeap(h2)
                /\ wvBounds' = [wvBounds EXCEPT ![id] = size]
                /\ handles' = [handles EXCEPT ![id] = @ + 1]
                /\ constructions' = id
                /\ host' = [host EXCEPT !.creator[id] = t,
                                        !.captured[id] = c,
                                        !.latest = c,
                                        !.touch = [thread |-> t, creator |-> t]]
                /\ initCalls' = initCalls + InitPerConstruction
                /\ session' = AfterAttach
                /\ UNCHANGED << proc, panic >>

\* Editor::spawn called on a thread of T with a context of C.
SpawnFrom(T, C) ==
    /\ pc = "idle"
    /\ editorAlive
    /\ HandleTotal < MaxHandles
    /\ \E t \in T, c \in C :
        IF ReuseExisting(webview)
        THEN \E outcome \in {"ok", "failed"} : SpawnReuse(outcome, t, c)
        ELSE /\ constructions < MaxInst
             /\ \E built \in BOOLEAN : SpawnConstruct(built, t, c)

\* The host attaches on its GUI thread, with one context.
Spawn ==
    /\ proc = "running"
    /\ SpawnFrom({MainThread}, {1})

\* The host drops an EditorHandle: its Rc<WebView> is released, nothing else.
DropHandleOn(T) ==
    /\ pc = "idle"
    /\ \E i \in Insts, t \in T :
        /\ handles[i] > 0
        /\ host' = Touched(i, t)
        /\ handles' = [handles EXCEPT ![i] = @ - 1]
        /\ SetHeap(ReleaseWv(Heap, i))
        /\ session' = IF HandleTotal = 1 THEN "detached" ELSE session
    /\ UNCHANGED << size, params_changed, paramsCall, editorAlive, otherVars, wvBounds,
                    constructions, initCalls, reparent, resizeVars, ipcVars,
                    proc, panic, lastGranted >>

\* The host detaches on its GUI thread.
DropHandle ==
    /\ proc = "running"
    /\ DropHandleOn({MainThread})

\* The host drops the WebviewEditor: its Rc of the cell is released.
DropEditorOn(T) ==
    /\ pc = "idle"
    /\ editorAlive
    /\ editorAlive' = FALSE
    /\ \E t \in T :
        host' = IF webview = 0 THEN host ELSE Touched(webview, t)
    /\ SetHeap(ReleaseCell(Heap, 1))
    /\ UNCHANGED << size, params_changed, paramsCall, otherVars, wvBounds, handles,
                    constructions, initCalls, reparent, session, resizeVars,
                    ipcVars, proc, panic, lastGranted >>

\* The host tears the editor down on its GUI thread.
DropEditor ==
    /\ proc = "running"
    /\ DropEditorOn({MainThread})

\* ------------------------------------------------------------ IPC handler

\* Mutant: the binary prefix is mistyped, so no binary string matches.
DispatchNoBinary(m) ==
    IF StartsWith(m, FRAME) THEN "frame"
    ELSE IF StartsWith(m, TEXT_PREFIX) THEN "text"
    ELSE "none"

\* The prefix tests of the IPC handler, in the handler's order.
Dispatch(m) ==
    IF StartsWith(m, FRAME) THEN "frame"
    ELSE IF StartsWith(m, TEXT_PREFIX) THEN "text"
    ELSE IF StartsWith(m, BINARY_PREFIX) THEN "binary"
    ELSE "none"

FrameCall == [cb |-> "on_frame", kind |-> "Frame", text |-> <<>>, bytes |-> <<>>]

TextCall(t) == [cb |-> "on_message", kind |-> "Text", text |-> t, bytes |-> <<>>]

BinaryCall(b) == [cb |-> "on_message", kind |-> "Binary", text |-> <<>>, bytes |-> b]

lifeVars ==
    << editorAlive, otherVars, wvBounds, handles, constructions, initCalls,
       reparent, session, host >>

\* Mutant: the mutex lets the thread that holds it lock it again.
LockAgain(lock) == TRUE

\* Mutex::lock returns a guard when no guard is alive.
LockFree(lock) == lock = "free"

\* What a second lock() on the thread that holds the guard may do: std
\* leaves it unspecified, but the call never returns.
Relocks == { "deadlock", "panic" }

\* Entering a user callback with the editor mutex held.
Enter(where, call) ==
    /\ pc' = where
    /\ editorLock' = "held"
    /\ calls' = Append(calls, call)
    /\ active' = Append(active, where)
    /\ UNCHANGED << proc, panic >>

\* `config.editor.lock().unwrap()` and then the callback.  The frame branch
\* locks inside catch_unwind, so a panic there ends in process::exit.
Lock(where, call, relock) ==
    IF LockFree(editorLock)
    THEN Enter(where, call)
    ELSE /\ UNCHANGED << pc, editorLock, calls, active >>
         /\ IF relock = "deadlock"
            THEN proc' = "deadlocked" /\ UNCHANGED panic
            ELSE IF where = "on_frame"
            THEN proc' = "exited" /\ panic' = "lock"
            ELSE Unwind("lock")

\* The closure registered by with_ipc_handler, run on the string m.
IpcHandler(m, relock) ==
    /\ delivered' = Append(delivered, m)
    /\ msg' = m
    /\ IF webview = 0
       THEN \* webview.as_ref().unwrap() on None
            /\ Unwind("ipc_no_webview")
            /\ UNCHANGED << pc, editorLock, calls, active, heapVars >>
       ELSE IF Dispatch(m) = "frame"
       THEN \* the WindowHandler holds a clone of the Rc<WebView>
            /\ Lock("on_frame", FrameCall, relock)
            /\ wvStrong' = IF LockFree(editorLock)
                           THEN [wvStrong EXCEPT ![webview] = @ + 1]
                           ELSE wvStrong
            /\ UNCHANGED << webview, cellStrong, wvState >>
       ELSE IF Dispatch(m) = "text"
       THEN /\ Lock("on_message",
                    TextCall(TrimStartMatches(m, TEXT_PREFIX)), relock)
            /\ UNCHANGED heapVars
       ELSE IF Dispatch(m) = "binary"
       THEN LET d == Base64Decode(TrimStartMatches(m, BINARY_PREFIX))
            IN  IF d[1]
                THEN /\ Lock("on_message", BinaryCall(d[2]), relock)
                     /\ UNCHANGED heapVars
                ELSE \* BASE64.decode(..).unwrap() on Err
                     /\ Unwind("ipc_base64_unwrap")
                     /\ UNCHANGED << pc, editorLock, calls, active, heapVars >>
       ELSE UNCHANGED << pc, editorLock, calls, active, heapVars, proc, panic >>
    /\ UNCHANGED << size, params_changed, paramsCall, lifeVars, resizeVars, lastGranted >>

\* The panel hands one string to the handler while no callback is running.
Ipc ==
    /\ proc = "running"
    /\ pc = "idle"
    /\ LiveInsts # {}
    /\ Len(delivered) < MaxIpc
    /\ \E m \in WireStrings : IpcHandler(m, "deadlock")

\* The panel's string reaches the handler while a callback is still
\* running: the event loop ran inside the callback or inside the host's
\* request_resize.
IpcReentrant ==
    /\ proc = "running"
    /\ pc # "idle"
    /\ Len(delivered) < MaxIpc
    /\ \E m \in WireStrings, relock \in Relocks : IpcHandler(m, relock)

\* Editor::spawn on the construction path, the panel's string reaching the
\* handler before build_as_child has returned: the cell still holds None.
\* The unwinding drops the WebView that was being built.
SpawnIpc ==
    /\ proc = "running"
    /\ pc = "idle"
    /\ editorAlive
    /\ HandleTotal < MaxHandles
    /\ ~ReuseExisting(webview)
    /\ constructions < MaxInst
    /\ Len(delivered) < MaxIpc
    /\ \E m \in WireStrings : IpcHandler(m, "deadlock")

ClearResize ==
    /\ req' = NoSize
    /\ old' = NoSize
    /\ sizeAtCall' = NoSize
    /\ hostOk' = FALSE
    /\ ret' = "none"

\* on_frame returns: the WindowHandler and the mutex guard are dropped.
ReturnFrame ==
    /\ proc = "running"
    /\ pc = "on_frame"
    /\ pc' = "idle"
    /\ editorLock' = "free"
    /\ active' = SubSeq(active, 1, Len(active) - 1)
    /\ SetHeap(ReleaseWv(Heap, webview))
    /\ ClearResize
    /\ paramsCall' = [NoParamsCall EXCEPT !.notified = paramsCall.notified]
    /\ UNCHANGED << size, params_changed, lifeVars, msg, delivered, calls,
                    proc, panic, lastGranted >>

\* on_frame panics: catch_unwind intercepts it and the process exits.
PanicFrame ==
    /\ proc = "running"
    /\ pc = "on_frame"
    /\ proc' = "exited"
    /\ panic' = "on_frame"
    /\ UNCHANGED << size, params_changed, paramsCall, lifeVars, heapVars, ipcVars,
                    resizeVars, lastGranted >>

\* on_message returns: the mutex guard is dropped.
ReturnMessage ==
    /\ proc = "running"
    /\ pc = "on_message"
    /\ pc' = "idle"
    /\ editorLock' = "free"
    /\ active' = SubSeq(active, 1, Len(active) - 1)
    /\ UNCHANGED << size, params_changed, paramsCall, lifeVars, heapVars, msg, delivered,
                    calls, resizeVars, proc, panic, lastGranted >>

\* on_message panics: nothing intercepts it, it leaves the IPC handler.
PanicMessage ==
    /\ proc = "running"
    /\ pc = "on_message"
    /\ Unwind("on_message")
    /\ editorLock' = "poisoned"
    /\ UNCHANGED << size, params_changed, paramsCall, lifeVars, heapVars, pc, msg,
                    delivered, calls, active, resizeVars, lastGranted >>

\* ----------------------------------------------------------------- resize

\* Mutant: the cell is read after it was written.
SwapReadsAfterWrite(cur, new) == new

\* AtomicCell::swap returns the value it replaced.
SwapResult(cur, new) == cur

\* Mutant: the refusal branch forgets the store.
NoRollback(cur, o) == cur

\* What the refusal branch stores back.
Rollback(cur, o) == o

\* Mutant: the requested pair is written only once the host has approved.
SwapStoresLate(cur, new) == cur

\* AtomicCell::swap leaves the new value in the cell.
SwapStored(cur, new) == new

\* Mutant: a set_bounds error is returned to the caller.
SetBoundsPropagated(ok) == IF ok THEN "true" ELSE "false"

\* `let _ = self.webview.set_bounds(..); true`
AfterSetBounds(ok) == "true"

\* Context::resize_window -> WindowHandler::resize, up to request_resize().
ResizeWindow ==
    /\ proc = "running"
    /\ pc = "on_frame"
    /\ \E p \in SizePairs :
        /\ req' = p
        /\ old' = SwapResult(size, p)
        /\ size' = SwapStored(size, p)
    /\ sizeAtCall' = size
    /\ hostOk' = FALSE
    /\ ret' = "none"
    /\ pc' = "request_resize"
    /\ UNCHANGED << params_changed, paramsCall, lifeVars, heapVars, editorLock, msg,
                    delivered, calls, active, proc, panic, lastGranted >>

\* request_resize() returns and resize runs to its end.
RequestResizeReturns ==
    /\ proc = "running"
    /\ pc = "request_resize"
    /\ pc' = "on_frame"
    /\ \E ans \in BOOLEAN, boundsOk \in BOOLEAN :
        /\ hostOk' = ans
        /\ IF ~ans
           THEN /\ size' = Rollback(size, old)
                /\ ret' = "false"
                /\ UNCHANGED << wvBounds, lastGranted >>
           ELSE /\ wvBounds' = IF boundsOk
                               THEN [wvBounds EXCEPT ![webview] = req]
                               ELSE wvBounds
                /\ ret' = AfterSetBounds(boundsOk)
                /\ lastGranted' = req
                /\ UNCHANGED size
    /\ UNCHANGED << params_changed, paramsCall, editorAlive, otherVars, host,
                    active, handles,
                    constructions, initCalls, reparent, session, heapVars,
                    editorLock, msg, delivered, calls, req, old, sizeAtCall,
                    proc, panic >>

\* Context::params_changed: swap(false)
ParamsChangedCall ==
    /\ proc = "running"
    /\ pc = "on_frame"
    /\ params_changed' = FALSE
    /\ paramsCall' =
        [ notified |-> FALSE,
          returned |-> IF SwapResult(params_changed, FALSE)
                       THEN "true" ELSE "false",
          expected |-> paramsCall.notified ]
    /\ UNCHANGED << size, lifeVars, heapVars, ipcVars, resizeVars, proc,
                    panic, lastGranted >>

\* --------------------------------------------------------- host callbacks

\* Editor::size
CurrentSize == <<AsU32(size[1]), AsU32(size[2])>>

\* Mutant: the notification stores nothing.
NotifyDropped(cur) == cur

\* `self.params_changed.store(true, ..)`
NotifyStored(cur) == TRUE

\* param_values_changed, param_value_changed, param_modulation_changed
ParamNotify ==
    /\ proc = "running"
    /\ editorAlive
    /\ params_changed' = NotifyStored(params_changed)
    /\ paramsCall' = [paramsCall EXCEPT !.notified = TRUE]
    /\ UNCHANGED << size, lifeVars, heapVars, ipcVars, resizeVars, proc,
                    panic, lastGranted >>

\* Mutant: set_scale_factor applies a factor to the stored size.
SetScaleFactorScales ==
    /\ proc = "running"
    /\ pc = "idle"
    /\ editorAlive
    /\ size' = <<1000, 800>>
    /\ UNCHANGED << params_changed, paramsCall, lifeVars, heapVars, ipcVars,
                    resizeVars, proc, panic, lastGranted >>

\* Editor::set_scale_factor returns false and changes nothing.
SetScaleFactor ==
    /\ proc = "running"
    /\ pc = "idle"
    /\ editorAlive
    /\ UNCHANGED vars

\* PersistentField::set: the host restores a saved state.
Restore ==
    /\ proc = "running"
    /\ pc = "idle"
    /\ \E p \in RestoreSizes :
        /\ size' = p
        /\ lastGranted' = p
    /\ UNCHANGED << params_changed, paramsCall, lifeVars, heapVars, ipcVars, resizeVars,
                    proc, panic >>

\* --------------------------------------------------------- message codec

\* send_message called with a message of the set M.
SendMessageOf(M) ==
    /\ \E m \in M :
        sent' = [kind |-> m.kind, text |-> m.text, bytes |-> m.bytes,
                 script |-> Script(m)]
    /\ UNCHANGED << size, params_changed, paramsCall, editorAlive, parentKind, sendCell,
                    served, host,
                    wvBounds, handles, constructions, initCalls, reparent,
                    session, heapVars, ipcVars, resizeVars, proc, panic,
                    lastGranted >>

\* Context::send_message, and the send_message closure on_message is given.
SendMessage ==
    /\ proc = "running"
    /\ pc \in {"on_frame", "on_message"}
    /\ SendMessageOf(OutMessages)

\* User logic that sends Binary messages only.
SendBinary ==
    /\ proc = "running"
    /\ pc \in {"on_frame", "on_message"}
    /\ SendMessageOf(OutBinary)

\* User logic that sends empty messages only.
EmptyMessages == { m \in OutMessages : m.text = <<>> /\ m.bytes = <<>> }

\* send_message with an empty payload.
SendEmpty ==
    /\ proc = "running"
    /\ pc \in {"on_frame", "on_message"}
    /\ SendMessageOf(EmptyMessages)

\* The panel hands one payload string to the handler.
IpcPayload ==
    /\ proc = "running"
    /\ pc = "idle"
    /\ LiveInsts # {}
    /\ Len(delivered) < MaxPayloadIpc
    /\ \E m \in InPayloads : IpcHandler(m, "deadlock")

\* --------------------------------------------------------------- SendCell

Threads == 1..MaxThreads

\* What a SendCell wraps.
Values == { "a", "b" }

\* Everything but the SendCell.
editorVars ==
    << size, params_changed, paramsCall, editorAlive, parentKind, sent, served,
       host, wvBounds,
       handles, constructions, initCalls, reparent, session, heapVars,
       ipcVars, resizeVars, proc, panic, lastGranted >>

\* Mutant: deref hands out the data on any thread.
DerefUnchecked(tid, cur) == TRUE

\* Mutant: drop accepts any thread.
DropUnchecked(tid, cur) == TRUE

\* deref and deref_mut: `self.tid != std::thread::current().id()` panics.
DerefAllowed(tid, cur) == tid = cur

\* drop: `self.tid != std::thread::current().id()` panics.
DropAllowed(tid, cur) == tid = cur

\* SendCell::new on thread t.
CellNew ==
    /\ sendCell.state = "none"
    /\ \E t \in Threads, v \in Values :
        sendCell' = [ state |-> "alive", tid |-> t, creator |-> t, at |-> t,
                      data |-> v, op |-> "new", by |-> t, outcome |-> "ok",
                      value |-> "none" ]
    /\ UNCHANGED editorVars

\* The cell is moved to another thread (it is Send whatever it wraps).
CellMove ==
    /\ sendCell.state = "alive"
    /\ \E t \in Threads \ {sendCell.at} :
        sendCell' = [sendCell EXCEPT !.at = t, !.op = "move",
                                     !.by = sendCell.at, !.outcome = "ok",
                                     !.value = "none"]
    /\ UNCHANGED editorVars

\* Deref::deref on thread t.
CellDeref ==
    /\ sendCell.state = "alive"
    /\ \E t \in Threads :
        sendCell' =
            IF DerefAllowed(sendCell.tid, t)
            THEN [sendCell EXCEPT !.op = "deref", !.by = t, !.outcome = "ok",
                                  !.value = sendCell.data]
            ELSE [sendCell EXCEPT !.op = "deref", !.by = t,
                                  !.outcome = "panic", !.value = "none"]
    /\ UNCHANGED editorVars

\* DerefMut::deref_mut on the thread that holds the cell, and a write
\* through the reference it returned.
CellDerefMut ==
    /\ sendCell.state = "alive"
    /\ \E v \in Values :
        sendCell' =
            IF DerefAllowed(sendCell.tid, sendCell.at)
            THEN [sendCell EXCEPT !.op = "deref_mut", !.by = sendCell.at,
                                  !.outcome = "ok", !.data = v, !.value = v]
            ELSE [sendCell EXCEPT !.op = "deref_mut", !.by = sendCell.at,
                                  !.outcome = "panic", !.value = "none"]
    /\ UNCHANGED editorVars

\* Drop::drop on the thread that holds the cell.  The fields are dropped
\* whether or not drop panicked.
CellDrop ==
    /\ sendCell.state = "alive"
    /\ sendCell' =
        [sendCell EXCEPT !.state = "dropped", !.op = "drop",
                         !.by = sendCell.at, !.value = "none",
                         !.outcome = IF DropAllowed(sendCell.tid, sendCell.at)
                                     THEN "ok" ELSE "panic"]
    /\ UNCHANGED editorVars

\* ------------------------------------------------------- directory source

\* A path is a sequence of its pieces, "/" being one piece.  The files the
\* disk may hold, by their canonical path.
IndexFile == <<"root", "/", "index.html">>

ScriptFile == <<"root", "/", "app.js">>

SubDir == <<"root", "/", "dir">>

\* Disks: each file is there, missing or not readable; the sub-directory is
\* always there.
Disks ==
    { [k \in {IndexFile, ScriptFile, SubDir} |->
          IF k = SubDir THEN "dir" ELSE IF k = IndexFile THEN a ELSE b] :
      a \in {"file", "absent", "unreadable"}, b \in {"file", "absent"} }

\* Request paths: the root, the two files, a missing file, the directory,
\* and a path whose second piece is a slash again.
RequestPaths ==
    { <<"/">>, <<"/", "index.html">>, <<"/", "app.js">>, <<"/", "gone.js">>,
      <<"/", "dir">>, <<"/", "/", "etc">> }

\* Mutant: the root path gets no index.html.
RequestFileNoIndex(path) == Tail(path)

\* `if path == "/" { "index.html" } else { &path[1..] }`
RequestFile(path) == IF path = <<"/">> THEN <<"index.html">> ELSE Tail(path)

\* PathBuf::join: an absolute argument replaces the base.
RootJoin(rel) ==
    IF rel # <<>> /\ rel[1] = "/" THEN rel ELSE <<"root", "/">> \o rel

\* std::fs::canonicalize succeeds for what exists.
Canonicalize(disk, key) == key \in DOMAIN disk /\ disk[key] # "absent"

\* std::fs::read succeeds for a readable file.
ReadOk(disk, key) == disk[key] = "file"

\* mime_guess::from_path(..).first(), "" when it knows no type.
MimeOf(key) ==
    IF key[Len(key)] = "index.html" THEN "text/html"
    ELSE IF key[Len(key)] = "app.js" THEN "text/javascript"
    ELSE ""

\* get_wry_response and the protocol closure around it: the content of the
\* file (named here by its path) or, for an Err, status 500 with the error's
\* text.
WryResponse(disk, path) ==
    LET key == RootJoin(RequestFile(path))
    IN  IF ~Canonicalize(disk, key)
        THEN [status |-> 500, ctype |-> "text/plain",
              body |-> <<"No such file or directory">>]
        ELSE IF ~ReadOk(disk, key)
        THEN [status |-> 500, ctype |-> "text/plain",
              body |-> <<"read failed">>]
        ELSE [status |-> 200, ctype |-> MimeOf(key), body |-> key]

\* The panel requests a path of the wry:// protocol.
Serve ==
    /\ \E disk \in Disks, path \in RequestPaths :
        LET r == WryResponse(disk, path)
        IN  served' = [ disk |-> disk, path |-> path, status |-> r.status,
                        ctype |-> r.ctype, body |-> r.body ]
    /\ UNCHANGED << size, params_changed, paramsCall, editorAlive, parentKind, sent,
                    sendCell, host, wvBounds, handles, constructions, initCalls,
                    reparent, session, heapVars, ipcVars, resizeVars, proc,
                    panic, lastGranted >>

\* ---------------------------------------------- host threads and contexts

\* Editor is Send: the host may attach from any thread, with any context.
SpawnAnywhere ==
    /\ proc = "running"
    /\ SpawnFrom(Threads, Contexts)

\* EditorHandle is Send: the host may drop it on any thread.
DropHandleAnywhere ==
    /\ proc = "running"
    /\ DropHandleOn(Threads)

\* The host may drop the WebviewEditor on any thread.
DropEditorAnywhere ==
    /\ proc = "running"
    /\ DropEditorOn(Threads)

\* WindowHandler.context: the clone the IPC closure took of spawn's argument
\* when the WebView was built.
ResizeContext == host.captured[webview]

\* Context::get_setter: ParamSetter::new over the same WindowHandler.context.
SetterContext == host.captured[webview]

\* ------------------------------------------------------------------- Next

Next ==
    \/ Spawn
    \/ DropHandle
    \/ DropEditor
    \/ Ipc
    \/ ReturnFrame
    \/ PanicFrame
    \/ ReturnMessage
    \/ PanicMessage
    \/ ResizeWindow
    \/ RequestResizeReturns
    \/ ParamsChangedCall
    \/ ParamNotify
    \/ SetScaleFactor
    \/ Restore

Spec == Init /\ [][Next]_vars

\* The editor with a panel that also emits while the host is inside spawn
\* or inside a callback.
NextReentrant ==
    \/ Next
    \/ IpcReentrant
    \/ SpawnIpc

SpecReentrant == Init /\ [][NextReentrant]_vars

\* The editor after its first spawn built the WebView: waiting for the
\* panel, or inside on_frame for the first "frame".
Attached(inFrame) ==
    /\ size = <<700, 500>>
    /\ lastGranted = size
    /\ params_changed = FALSE
    /\ paramsCall = NoParamsCall
    /\ editorAlive = TRUE
    /\ parentKind = "AppKitNsView"
    /\ webview = 1
    /\ cellStrong = 1 + ClosureCellRefs
    /\ wvState = [i \in Insts |-> IF i = 1 THEN "live" ELSE "unbuilt"]
    /\ wvStrong = [i \in Insts |->
                     IF i # 1 THEN 0 ELSE IF inFrame THEN 3 ELSE 2]
    /\ wvBounds = [i \in Insts |-> IF i = 1 THEN size ELSE NoSize]
    /\ handles = [i \in Insts |-> IF i = 1 THEN 1 ELSE 0]
    /\ constructions = 1
    /\ initCalls = InitPerConstruction
    /\ reparent = "none"
    /\ session = "attached"
    /\ pc = IF inFrame THEN "on_frame" ELSE "idle"
    /\ editorLock = IF inFrame THEN "held" ELSE "free"
    /\ msg = IF inFrame THEN FRAME ELSE <<>>
    /\ req = NoSize
    /\ old = NoSize
    /\ sizeAtCall = NoSize
    /\ hostOk = FALSE
    /\ ret = "none"
    /\ proc = "running"
    /\ panic = "none"
    /\ delivered = IF inFrame THEN <<FRAME>> ELSE <<>>
    /\ calls = IF inFrame THEN <<FrameCall>> ELSE <<>>
    /\ active = IF inFrame THEN <<"on_frame">> ELSE <<>>
    /\ sent = NoSent
    /\ sendCell = NoCell
    /\ served = NoRequest
    /\ host = HostAttached

InitAttached == Attached(FALSE)

InitOnFrame == Attached(TRUE)

\* The inbound codec: payload strings in, Binary answers out.
NextCodec ==
    \/ IpcPayload
    \/ SendBinary
    \/ ReturnMessage

SpecCodec == InitAttached /\ [][NextCodec]_vars

\* The outbound codec: what send_message makes of each message.
NextSend ==
    \/ SendMessage
    \/ ReturnFrame

SpecSend == InitOnFrame /\ [][NextSend]_vars

\* A SendCell handled by several threads, next to an editor at rest.
NextCell ==
    \/ CellNew
    \/ CellMove
    \/ CellDeref
    \/ CellDerefMut
    \/ CellDrop

SpecCell == Init /\ [][NextCell]_vars

\* The directory source alone, next to an editor at rest.
NextServe == Serve

SpecServe == Init /\ [][NextServe]_vars

\* The editor under a host that uses several threads and contexts.
NextHost ==
    \/ SpawnAnywhere
    \/ DropHandleAnywhere
    \/ DropEditorAnywhere
    \/ Ipc
    \/ ReturnFrame
    \/ ReturnMessage
    \/ ResizeWindow
    \/ RequestResizeReturns

SpecHost == Init /\ [][NextHost]_vars

\* Every operation that could write the size, send_message included.
NextEffects ==
    \/ Spawn
    \/ DropHandle
    \/ DropEditor
    \/ Ipc
    \/ ReturnFrame
    \/ ReturnMessage
    \/ ResizeWindow
    \/ RequestResizeReturns
    \/ ParamNotify
    \/ SetScaleFactor
    \/ Restore
    \/ SendEmpty

SpecEffects == Init /\ [][NextEffects]_vars

\* The editor while user logic asks for no resize: the bounds given at
\* construction are the only bounds update, and it succeeded.
NextRestore ==
    \/ Spawn
    \/ DropHandle
    \/ DropEditor
    \/ Restore
    \/ Ipc
    \/ ReturnFrame
    \/ ReturnMessage
    \/ ParamNotify

SpecRestore == Init /\ [][NextRestore]_vars

\* ----------------------------------------------------------------- claims

\* A resize_window call has returned to on_frame.
ResizeReturned == pc = "on_frame" /\ ret # "none"

\* C1: when resize_window(w, h), called with EditorSize equal to old, has
\* returned: if the host approved, it returned true and EditorSize is
\* exactly (w, h); if the host refused, it returned false and EditorSize is
\* exactly old.  No other outcome, in particular no mixed pair.
C1_ResizeAllOrNothing ==
    ResizeReturned =>
        /\ hostOk => (ret = "true" /\ size = req)
        /\ ~hostOk => (ret = "false" /\ size = sizeAtCall)

\* A refused request for a pair that differs from the old one in both
\* components has been rolled back.
C1_Witness ==
    /\ ResizeReturned
    /\ ~hostOk
    /\ ret = "false"
    /\ req[1] # sizeAtCall[1]
    /\ req[2] # sizeAtCall[2]
    /\ size = sizeAtCall

\* C2: outside a resize_window call, current_size() is the integer pair of
\* the most recently approved request, or of the initial size when none was
\* approved (or of the restored size after a host state restore); a refused
\* request leaves it as it was.
C2_CurrentSizeIsLastGranted ==
    pc # "request_resize" =>
        CurrentSize = <<AsU32(lastGranted[1]), AsU32(lastGranted[2])>>

\* The scenario of the specification: 500x400 was approved, a later request
\* for another size was refused, and current_size() is still (500, 400).
C2_Witness ==
    /\ ResizeReturned
    /\ ret = "false"
    /\ lastGranted = <<1000, 800>>
    /\ lastGranted \notin InitSizes \cup RestoreSizes
    /\ req # lastGranted
    /\ CurrentSize = <<500, 400>>

\* C3: an attach that follows a detach and returns an EditorHandle happens
\* on a parent handle with a reparent primitive and reuses the PanelInstance:
\* the cell holds the same instance, no instance is built or dropped, and
\* init is not invoked.
C3_ReattachReusesInstance ==
    [][ (session = "detached" /\ session' = "reattached") =>
            /\ ReparentSupported(parentKind)
            /\ webview # 0
            /\ webview' = webview
            /\ wvState' = wvState
            /\ constructions' = constructions
            /\ initCalls' = initCalls ]_vars

\* A reattach has happened and the one instance ever built is still there.
C3_Witness ==
    /\ session = "reattached"
    /\ reparent = "ok"
    /\ constructions = 1
    /\ webview = 1
    /\ wvState[1] = "live"

\* C4: an attach that finds an instance, and whose reparent is unsupported
\* or fails, builds a fresh instance, invokes init once more and raises no
\* fault.
C4_ReparentFailureRebuilds ==
    [][ (proc = "running" /\ reparent' \in {"failed", "unsupported"}) =>
            /\ proc' = "running"
            /\ constructions' = constructions + 1
            /\ initCalls' = initCalls + 1 ]_vars

\* C5: init has been invoked once per construction.
C5_InitOncePerConstruction == initCalls = constructions

\* C6: at most one PanelInstance exists, and none before the first attach.
C6_AtMostOneInstance ==
    /\ Cardinality(LiveInsts) <= 1
    /\ session = "none" => LiveInsts = {}

\* A second attach was made while an earlier EditorHandle is alive.
C6_Witness ==
    /\ HandleTotal = 2
    /\ Cardinality(LiveInsts) = 1
    /\ webview \in LiveInsts

\* C7: once the editor is dropped and every EditorHandle released, no
\* PanelInstance is left alive: no owner and no reference cycle keeps it.
\* (That a detach alone never drops the instance follows from the cell's
\* own strong reference, see DropHandle.)
C7_DisposedAfterTeardown ==
    (~editorAlive /\ HandleTotal = 0 /\ pc = "idle") => LiveInsts = {}

\* What the claims call a tick, a text and a binary string.
ClaimKind(s) ==
    IF s = FRAME THEN "Frame"
    ELSE IF StartsWith(s, TEXT_PREFIX) THEN "Text"
    ELSE IF /\ StartsWith(s, BINARY_PREFIX)
            /\ Base64Decode(SubSeq(s, Len(BINARY_PREFIX) + 1, Len(s)))[1]
         THEN "Binary"
    ELSE "none"

\* C8: when the panel has emitted only tick, text and binary strings, the
\* callbacks invoked so far are one per string, of the string's kind, in
\* the order of emission.
C8_CallbacksInEmissionOrder ==
    (\A i \in 1..Len(delivered) : ClaimKind(delivered[i]) # "none") =>
        /\ Len(calls) = Len(delivered)
        /\ \A i \in 1..Len(calls) : calls[i].kind = ClaimKind(delivered[i])

\* Two strings of different kinds were emitted and dispatched in order.
C8_Witness ==
    /\ Len(delivered) = 2
    /\ ClaimKind(delivered[1]) = "Text"
    /\ ClaimKind(delivered[2]) = "Frame"
    /\ Len(calls) = 2
    /\ calls[1].cb = "on_message"
    /\ calls[2].cb = "on_frame"

\* C9: a panic of user logic in on_frame or on_message is intercepted and
\* ends the process; it never unwinds out of the handler.
C9_PanicsAreContained ==
    panic \in {"on_frame", "on_message"} => proc = "exited"

\* C10: while a callback runs, it is the tick callback if and only if the
\* wire string is exactly "frame".
C10_TickIffExactlyFrame ==
    pc # "idle" => ((pc \in {"on_frame", "request_resize"}) <=> (msg = FRAME))

\* C11: the wire string "text," followed by s invokes on_message exactly
\* once, with Text(s): s is everything after the first prefix, also when s
\* is empty or itself begins with "text,".
C11_TextPayloadIsRemainder ==
    \A t \in InTexts :
        (pc = "on_message" /\ msg = TEXT_PREFIX \o t)
            => /\ Len(calls) = Len(delivered)
               /\ calls[Len(calls)] = TextCall(t)

\* The last byte run: it ends with the value 255.
LastRun == ByteRun(255 \div MaxRun)

\* C12: the wire string "binary," followed by the base64 text of a byte
\* sequence b invokes on_message exactly once, with Binary(b), byte for
\* byte; and the base64 text that send_message puts into the script for
\* Binary(b) decodes back to b.
C12_BinaryRoundTrip ==
    /\ \A b \in ByteSeqs :
        (msg = BINARY_PREFIX \o EncodedBytes[b])
            => /\ proc = "running"
               /\ Len(calls) = Len(delivered)
               /\ calls[Len(calls)] = BinaryCall(b)
    /\ sent.kind = "Binary"
        => LET lit == JsTemplate(AfterOpening(sent.script))
           IN  /\ lit[1] = "closed"
               /\ lit[3] = <<"));">>
               /\ Base64Decode(lit[2]) = <<TRUE, sent.bytes>>

\* on_message holds the bytes of the last run, and it answered with
\* Binary(<<255, 0>>).
C12_Witness ==
    /\ pc = "on_message"
    /\ msg = BINARY_PREFIX \o EncodedBytes[LastRun]
    /\ calls[Len(calls)] = BinaryCall(LastRun)
    /\ sent.kind = "Binary"
    /\ sent.bytes = <<255, 0>>
    /\ Base64Decode(JsTemplate(AfterOpening(sent.script))[2]) = <<TRUE, <<255, 0>>>>

HasBacktick(t) == \E i \in 1..Len(t) : t[i] = BT

\* C15: for every Text payload that holds a backtick, in any position, also
\* right after a backslash, read as a backtick-delimited literal the script
\* yields the original string exactly (the closing backtick is the one the
\* format string wrote).
C15_BacktickTextRoundTrip ==
    (sent.kind = "Text" /\ HasBacktick(sent.text))
        => JsTemplate(AfterOpening(sent.script)) = <<"closed", sent.text, <<");">>>>

\* The handler was given one more string in this step.
Delivery == Len(delivered') = Len(delivered) + 1

\* The session state a discarded string must leave alone.
SessionUntouched ==
    /\ calls' = calls
    /\ active' = active
    /\ UNCHANGED << size, params_changed, heapVars, wvBounds, editorLock >>
    /\ proc' = "running"
    /\ panic' = "none"

\* Not the tick, and neither a text nor a binary string.
UnknownWire(m) ==
    /\ m # FRAME
    /\ ~StartsWith(m, TEXT_PREFIX)
    /\ ~StartsWith(m, BINARY_PREFIX)

\* C13: a wire string that is not "frame" and starts with neither "text,"
\* nor "binary," is discarded: no callback is invoked, EditorSize, the
\* PanelInstance and the params-changed flag stay as they are, and the
\* process keeps running, ready for the next string.
C13_UnknownStringDiscarded ==
    [][ (Delivery /\ UnknownWire(msg')) => SessionUntouched ]_vars

\* What follows the first "binary," of m.
BinaryPayload(m) == SubSeq(m, Len(BINARY_PREFIX) + 1, Len(m))

\* C14: a "binary," string whose payload is not valid base64 is discarded:
\* on_message is not invoked, nothing faults, the session state stays as it
\* is and the process keeps running, ready for the next string.
C14_InvalidBase64Discarded ==
    [][ ( /\ Delivery
          /\ StartsWith(msg', BINARY_PREFIX)
          /\ ~Base64Decode(BinaryPayload(msg'))[1] ) => SessionUntouched ]_vars

\* C17: at most one user-logic callback executes on the user state at any
\* time, also when a string is delivered while another callback is active;
\* and while the process runs a callback executes only under the editor
\* mutex.
C17_OneCallbackAtATime ==
    /\ Len(active) <= 1
    /\ (proc = "running" /\ active # <<>>) => editorLock = "held"

\* A "text," string arrived inside on_frame: on_message was not invoked, the
\* handler is stuck in lock().
C17_Witness ==
    /\ active = <<"on_frame">>
    /\ Len(delivered) = 2
    /\ Dispatch(msg) = "text"
    /\ proc = "deadlocked"
    /\ Len(calls) = 1

\* C18: a string delivered while the cell holds no PanelInstance (spawn has
\* not recorded it yet) is dropped: no callback runs and nothing faults.
C18_DroppedWhileUnavailable ==
    [][ (Delivery /\ webview = 0)
          => (calls' = calls /\ proc' = "running" /\ panic' = "none") ]_vars

\* C19: for a cell made on thread T, every shared or mutable access on T
\* succeeds and yields the data, every access on another thread panics and
\* yields nothing; the recorded thread stays T, also after the cell was
\* moved.
C19_AccessOnlyOnCreator ==
    /\ sendCell.state # "none" => sendCell.tid = sendCell.creator
    /\ sendCell.op \in {"deref", "deref_mut"}
        => IF sendCell.by = sendCell.creator
           THEN sendCell.outcome = "ok" /\ sendCell.value = sendCell.data
           ELSE sendCell.outcome = "panic" /\ sendCell.value = "none"

\* The cell was moved to another thread and dereferenced there.
C19_Witness ==
    /\ sendCell.op = "deref"
    /\ sendCell.at # sendCell.creator
    /\ sendCell.by = sendCell.at
    /\ sendCell.outcome = "panic"
    /\ sendCell.tid = sendCell.creator

\* C20: dropping a cell on a thread other than its creator panics,
\* dropping it on the creating thread succeeds.
C20_DropOnlyOnCreator ==
    sendCell.op = "drop"
        => (sendCell.outcome = "ok" <=> sendCell.by = sendCell.creator)
               /\ sendCell.outcome \in {"ok", "panic"}

\* The cell was moved to another thread and dropped there.
C20_Witness ==
    /\ sendCell.op = "drop"
    /\ sendCell.by # sendCell.creator
    /\ sendCell.outcome = "panic"

\* C22: when the panel library refuses to build the panel, the attach is
\* given up without ending the process and without recording an instance:
\* the cell stays empty and a later attach can build again.
C22_BuildFailureAbortsAttach ==
    panic = "spawn_build_expect" => (proc = "running" /\ webview = 0)

\* C23: when the host approves a resize and setting the panel's bounds
\* fails, resize_window still returns true, EditorSize is the requested pair
\* and the failure raises no fault (the only panic on_frame can then end
\* with is user logic's own).
C23_BoundsFailureIgnored ==
    (ResizeReturned /\ hostOk /\ wvBounds[webview] # req)
        => /\ ret = "true"
           /\ size = req
           /\ panic \in {"none", "on_frame"}

\* An approved resize to 500x400 whose set_bounds failed: the panel still
\* has the bounds it was built with.
C23_Witness ==
    /\ ResizeReturned
    /\ hostOk
    /\ req = <<1000, 800>>
    /\ wvBounds[webview] = <<700, 500>>
    /\ ret = "true"
    /\ size = req

\* C24: both components of EditorSize are non-negative in every reachable
\* state.
C24_SizeNonNegative == size[1] >= 0 /\ size[2] >= 0

\* C28: while the host is asked to approve, EditorSize is already the
\* requested pair, and so is what Editor::size reports; the old pair comes
\* back only with the refusal.
C28_RequestedSizeDuringApproval ==
    /\ pc = "request_resize"
        => (size = req /\ CurrentSize = <<AsU32(req[1]), AsU32(req[2])>>)
    /\ (pc = "on_frame" /\ ret = "true") => size = req

\* The host is being asked for 500x400 while 350x250 was in force.
C28_Witness ==
    /\ pc = "request_resize"
    /\ old = <<700, 500>>
    /\ req = <<1000, 800>>
    /\ size = req
    /\ CurrentSize = <<500, 400>>

\* C30: a string delivered while a callback is still running does not get
\* the handler stuck on the editor mutex or on the cell, nor does it end the
\* process: the dispatch returns.
C30_ReentrantDispatchReturns ==
    [][ (Delivery /\ pc # "idle") => proc' = "running" ]_vars

\* The file a request path names below the root, as the claim reads it.
NamedFile(path) ==
    IF path = <<"/">> THEN IndexFile ELSE <<"root">> \o path

\* C27: the root path is answered with the root directory's index.html, and
\* a request whose file cannot be resolved or read is answered with status
\* 500 and a text body, never with a success status.
C27_DirectorySourceAnswers ==
    served.path # <<>> =>
        LET file == NamedFile(served.path)
            readable == file \in DOMAIN served.disk /\ served.disk[file] = "file"
        IN  /\ (served.path = <<"/">> /\ readable)
                => (served.status = 200 /\ served.body = IndexFile)
            /\ ~readable
                => /\ served.status = 500
                   /\ served.ctype = "text/plain"
                   /\ served.body # <<>>

\* The root path was requested while index.html could not be read.
C27_Witness ==
    /\ served.path = <<"/">>
    /\ served.disk[IndexFile] = "unreadable"
    /\ served.status = 500
    /\ served.body # <<>>

\* C26: params_changed() returns true exactly when a parameter notification
\* arrived since the previous call or since construction, and the flag holds
\* exactly the notifications no call has reported yet.
C26_ParamsChangedReportsOnce ==
    /\ params_changed = paramsCall.notified
    /\ paramsCall.returned # "none"
        => (paramsCall.returned = "true" <=> paramsCall.expected)

\* A call reported the notification that preceded it and cleared the flag.
C26_Witness ==
    /\ pc = "on_frame"
    /\ paramsCall.returned = "true"
    /\ paramsCall.expected
    /\ ~params_changed

\* C21: the WebView is touched only on the thread that built it: an attach,
\* a detach or an editor teardown on another thread does not reach it.
C21_InstanceOnCreatorThread == host.touch.thread = host.touch.creator

\* C29: after a detach and an attach that reuses the WebView, the resize
\* approval request and the parameter setter act on the context given to the
\* most recent spawn.
C29_LatestContextUsed ==
    session = "reattached" =>
        /\ pc = "request_resize" => ResizeContext = host.latest
        /\ pc = "on_frame" => SetterContext = host.latest

\* A step of resize_window: the swap, or the return of request_resize.
ResizeStep == pc = "request_resize" \/ pc' = "request_resize"

\* A step of PersistentField::set, made by the host between callbacks.
RestoreStep == pc = "idle" /\ pc' = "idle" /\ lastGranted' = size'

\* C25 as stated: the size is changed by resize_window only; attach, detach,
\* dispatch, send_message, parameter notifications and set_scale_factor
\* leave it unchanged.
C25_OnlyResizeProtocol == [][size' # size => ResizeStep]_vars

\* C25 amended: the size is changed by resize_window or by the host
\* restoring a saved state, and by nothing else.
C25_OnlyResizeOrRestore == [][size' # size => (ResizeStep \/ RestoreStep)]_vars

\* After messages were sent and a resize to 1000x800 reached the WebView,
\* the size is 700x500 again and no resize is in progress.
C25_Witness ==
    /\ pc = "idle"
    /\ sent # NoSent
    /\ webview # 0
    /\ wvBounds[webview] = <<1000, 800>>
    /\ size = <<700, 500>>
    /\ lastGranted = size
    /\ session = "detached"

\* An attach that reuses the WebView after a detach has just returned.
ReattachStep == session = "detached" /\ session' = "reattached"

\* C31: with no failed bounds update, the bounds of the attached WebView
\* equal the size, also right after a reattach that reuses the WebView when
\* the host restored a saved state in between.
C31_BoundsFollowSize ==
    [][ReattachStep => wvBounds'[webview'] = size']_vars

\* C32: for every Text payload that holds no backtick, the script calls the
\* receive function once with a string equal to the payload: backslashes and
\* "${" arrive literally, and the literal ends at the backtick the format
\* string wrote, with nothing but the end of the call after it.
C32_PlainTextRoundTrip ==
    (sent.kind = "Text" /\ ~HasBacktick(sent.text))
        => JsTemplate(AfterOpening(sent.script)) = <<"closed", sent.text, <<");">>>>

====
